---- MODULE Spec2Model ----
(***************************************************************************)
(* NavigationService (src/src/app/utils/services/navigation.service.ts,    *)
(* the class at lines 216-430) and MessagesListViewComponent               *)
(* (src/unnamed/part_000) as state machines.                               *)
(*                                                                         *)
(* One action is one run-to-completion step of the JavaScript event loop:  *)
(* a public method up to its first await, the continuation after an        *)
(* await, a timer callback, an observable callback, a snapshot callback.   *)
(***************************************************************************)
EXTENDS Integers, Sequences, FiniteSets, TLC

\* ------------------------------------------------------------- bounds
\* number of setChatViewObject calls in one behaviour
MaxCalls == 2
\* number of direct setThreadViewObject / clearThreadViewObject calls
MaxThreadOps == 1
\* number of times one chat-list callback may find its chat
MaxHits == 2

\* number of messagesPath assignments in one behaviour
MaxAttach == 2
\* longest held message list
MaxMessages == 3
\* most document changes in one snapshot
MaxBatch == 2

\* ------------------------------------------------------------- objects
Channels == {"chA", "chB"}
Users == {"u1", "u2"}
ChatIDs == 1..(MaxCalls + 1)

Path(root, channel, chat) == [root |-> root, channel |-> channel, chat |-> chat]
\* the value undefined of a string | undefined field
UndefPath == Path("undefined", "", 0)
\* the empty string ''
EmptyPath == Path("", "", 0)

\* Channel.channelMessagesPath: chB has no backing collection yet
channelMessagesPath(ch) ==
    IF ch = "chB" THEN EmptyPath ELSE Path("channels", ch, 0)

\* Chat.chatMessagesPath: chat 2 has no backing collection yet
chatMessagesPath(id) ==
    IF id = 2 THEN EmptyPath ELSE Path("chats", "", id)

View(kind, channel, chat) == [kind |-> kind, channel |-> channel, chat |-> chat]
\* the value undefined of _chatViewObject
Undef == View("undefined", "", 0)
ChannelObj(ch) == View("Channel", ch, 0)
ChatObj(id) == View("Chat", "", id)
UserObj(u) == [kind |-> "User", user |-> u]
ChannelArg(ch) == [kind |-> "Channel", user |-> ch]
Selections == {ChannelArg(ch) : ch \in Channels} \cup {UserObj(u) : u \in Users}

\* Message objects offered to setThreadViewObject
NoMessage == [id |-> "", answerable |-> FALSE, answerPath |-> UndefPath]
ThreadMessages ==
    { [id |-> "m1", answerable |-> TRUE, answerPath |-> Path("answers", "m1", 0)],
      [id |-> "m2", answerable |-> FALSE, answerPath |-> EmptyPath] }

\* ------------------------------------------------------------- state
VARIABLES
    chatViewObject,    \* NavigationService._chatViewObject
    chatViewPath,      \* NavigationService._chatViewPath
    threadViewObject,  \* NavigationService._threadViewObject
    threadViewPath,    \* NavigationService._threadViewPath
    changes,           \* values pushed through changeSubject, with the call that pushed
    calls,             \* the setChatViewObject invocations, in call order
    timers,            \* pending setTimeout(.., 100) callbacks, in scheduling order
    observers,         \* calls whose chatListChange$ subscription is live, in subscribe order
    chats,             \* channelService.chats
    chatMember,        \* the user each created chat is with ("none": id not used)
    threadOps          \* direct thread calls so far

navVars == <<chatViewObject, chatViewPath, threadViewObject, threadViewPath,
             changes, calls, timers, observers, chats, chatMember, threadOps>>

VARIABLES
    messages,          \* MessagesListViewComponent.messages
    unsubMessages,     \* MessagesListViewComponent.unsubMessages (0: null, else the listener it cancels)
    listeners,         \* the onSnapshot listeners that are attached, each with its path
    attachedPath,      \* the value last assigned to the messagesPath input
    attaches,          \* number of messagesPath assignments so far
    destroyed,         \* ngOnDestroy has run
    resorted           \* the last snapshot callback's sort moved a message

feedVars == <<messages, unsubMessages, listeners, attachedPath, attaches, destroyed,
              resorted>>

VARIABLES
    arrival,           \* the held messages in the order the feed delivered them
    ignored            \* the last snapshot callback met a change for an id not held

traceVars == <<arrival, ignored>>

VARIABLES
    memberIDs,         \* Chat.memberIDs of the chat a Chat view object stands for
    currentUser,       \* userService.currentUser ("none": undefined, else the user's id)
    directory,         \* the ids userService.getUserByID finds a user for
    searchContext      \* the value getSearchContext returned last

searchVars == <<memberIDs, currentUser, directory, searchContext>>

VARIABLES
    scrolls,           \* the scrollToMessageInView invocations, in call order
    rendered,          \* ids document.getElementById finds an element for
    highlighted        \* ids of the elements that carry the class color-change

scrollVars == <<scrolls, rendered, highlighted>>

VARIABLE
    remote             \* the documents of the attached collection as of the snapshot
                       \* delivered last (none before the first snapshot)

mirrorVars == <<remote>>

vars == <<navVars, feedVars, traceVars, searchVars, scrollVars, mirrorVars>>

\* what the navigation service's state changes leave alone
offNav == <<feedVars, traceVars, searchVars, scrollVars, mirrorVars>>

\* what the message list's feed handling leaves alone
offFeed == <<navVars, traceVars, searchVars, scrollVars, mirrorVars>>

\* what the message list's scrolling leaves alone
offScroll == <<navVars, feedVars, traceVars, searchVars, mirrorVars>>

Range(s) == {s[i] : i \in DOMAIN s}

\* changeSubject.next(tag), issued while call c runs (0: outside any call)
Emit(log, tag, c) == Append(log, [tag |-> tag, call |-> c])

InitNav ==
    /\ chatViewObject = Undef
    /\ chatViewPath = UndefPath
    /\ threadViewObject = NoMessage
    /\ threadViewPath = UndefPath
    /\ changes = <<[tag |-> "unknow", call |-> 0]>>
    /\ calls = <<>>
    /\ timers = <<>>
    /\ observers = <<>>
    /\ chats \in {<<>>, <<1>>}
    /\ chatMember = [id \in ChatIDs |-> IF id = 1 /\ chats # <<>> THEN "u1" ELSE "none"]
    /\ threadOps = 0

\* ------------------------------------------------------------- collaborators
\* channelService.chats.find((chat) => chat.id === id); 0 stands for undefined
FindChatByID(list, id) ==
    IF \E i \in DOMAIN list : list[i] = id THEN id ELSE 0

\* channelService.getChatWithUserByID(userID): the first chat of the cached
\* list that is with that user; 0 stands for undefined
getChatWithUserByID(u) ==
    LET hits == {i \in DOMAIN chats : chatMember[chats[i]] = u}
    IN  IF hits = {} THEN 0
        ELSE chats[CHOOSE i \in hits : \A j \in hits : i <= j]

\* the id the store gives to the next created chat
FreshChatID == CHOOSE id \in ChatIDs :
                   /\ chatMember[id] = "none"
                   /\ \A other \in ChatIDs : chatMember[other] = "none" => id <= other

\* chats the store holds that have not reached channelService.chats yet
PendingChats == {id \in ChatIDs : chatMember[id] # "none" /\ id \notin Range(chats)}

\* what addChatWithUserOnFirestore can answer: a chat id, undefined, or a rejection
CreateOutcomes == {"ok", "undefined", "reject"}

\* ------------------------------------------------------------- NavigationService
\* a call whose chat lookup, chat creation or chat-list wait is still going on
InFlight(c) == calls[c].chat \in {"lookup", "create"} \/ c \in Range(observers)

\* the navigation state the accessors show, with the count of thread calls
NavState ==
    [view |-> chatViewObject, path |-> chatViewPath, thread |-> threadViewObject,
     threadPath |-> threadViewPath, threadOps |-> threadOps]

NewCall(object) ==
    [ object   |-> object,
      overlaps |-> \E c \in DOMAIN calls : InFlight(c),
      pc       |-> "timer",
      chat     |-> IF object.kind = "User" THEN "lookup" ELSE "none",
      found    |-> "pending",
      outcome  |-> "",
      chatID   |-> 0,
      creates  |-> 0,
      hits     |-> 0,
      emitted  |-> FALSE,
      viewAtTimeout |-> Undef,
      before   |-> NavState ]

\* setChatViewObjectAsChannel: the path of a channel, '' normalised to undefined
ChannelViewPath(ch) ==
    IF channelMessagesPath(ch) = EmptyPath THEN UndefPath ELSE channelMessagesPath(ch)

\* variant: a channel is not taken as view while an earlier call still waits
\* for its 100 ms timer
SetChatViewObjectWhenIdle(object) ==
    /\ Len(calls) < MaxCalls
    /\ LET c == Len(calls) + 1
           busy == \E e \in DOMAIN calls : calls[e].pc = "timer"
       IN  /\ IF object.kind = "Channel"
              THEN /\ chatViewObject' = IF busy THEN chatViewObject
                                        ELSE ChannelObj(object.user)
                   /\ chatViewPath' = IF busy THEN chatViewPath
                                      ELSE ChannelViewPath(object.user)
                   /\ changes' = Emit(Emit(changes, "chatViewObjectSetAsChannel", c),
                                      "threadViewObjectCleared", c)
              ELSE /\ UNCHANGED <<chatViewObject, chatViewPath>>
                   /\ changes' = Emit(changes, "threadViewObjectCleared", c)
           /\ threadViewPath' = UndefPath
           /\ threadViewObject' = NoMessage
           /\ calls' = Append(calls, NewCall(object))
           /\ timers' = Append(timers, [kind |-> "nav", call |-> c])
    /\ UNCHANGED <<observers, chats, chatMember, threadOps>>

\* setChatViewObject(object), up to its await of the 100 ms timer.  For a user
\* setChatViewObjectAsChat runs to its first await (the lookup is started) and
\* its promise is dropped; clearThreadViewObject follows at once.
SetChatViewObject(object) ==
    /\ Len(calls) < MaxCalls
    /\ LET c == Len(calls) + 1
       IN  /\ IF object.kind = "Channel"
              THEN /\ chatViewObject' = ChannelObj(object.user)
                   /\ chatViewPath' = ChannelViewPath(object.user)
                   /\ changes' = Emit(Emit(changes, "chatViewObjectSetAsChannel", c),
                                      "threadViewObjectCleared", c)
              ELSE /\ UNCHANGED <<chatViewObject, chatViewPath>>
                   /\ changes' = Emit(changes, "threadViewObjectCleared", c)
           /\ threadViewPath' = UndefPath
           /\ threadViewObject' = NoMessage
           /\ calls' = Append(calls, NewCall(object))
           /\ timers' = Append(timers, [kind |-> "nav", call |-> c])
    /\ UNCHANGED <<observers, chats, chatMember, threadOps>>

\* setChatViewObjectAsChat after `await getChatWithUserByID`: the chat was found
LookupFound(c) ==
    /\ calls[c].chat = "lookup"
    /\ getChatWithUserByID(calls[c].object.user) # 0
    /\ LET chat == getChatWithUserByID(calls[c].object.user)
       IN  /\ chatViewObject' = ChatObj(chat)
           /\ chatViewPath' = chatMessagesPath(chat)
           /\ calls' = [calls EXCEPT ![c].chat = "done", ![c].found = "yes",
                                     ![c].chatID = chat]
    /\ changes' = Emit(changes, "chatViewObjectSetAsChat", c)
    /\ UNCHANGED <<threadViewObject, threadViewPath, timers, observers, chats,
                   chatMember, threadOps>>

\* variant: the creation request is issued whatever the lookup returned
LookupMissedUnguarded(c) ==
    /\ calls[c].chat = "lookup"
    /\ \E outcome \in CreateOutcomes :
          /\ calls' = [calls EXCEPT ![c].chat = "create", ![c].found = "no",
                                    ![c].outcome = outcome,
                                    ![c].creates = @ + 1,
                                    ![c].chatID = IF outcome = "ok" THEN FreshChatID ELSE 0]
          /\ chatMember' = IF outcome = "ok"
                           THEN [chatMember EXCEPT ![FreshChatID] = calls[c].object.user]
                           ELSE chatMember
    /\ UNCHANGED <<chatViewObject, chatViewPath, threadViewObject, threadViewPath,
                   changes, timers, observers, chats, threadOps>>

\* setChatViewObjectAsChat after `await getChatWithUserByID`: no chat, so
\* addChatWithUserOnFirestore is called; the store takes the request (and, when
\* it is going to succeed, holds the new chat from now on)
LookupMissed(c) ==
    /\ calls[c].chat = "lookup"
    /\ getChatWithUserByID(calls[c].object.user) = 0
    /\ \E outcome \in CreateOutcomes :
          /\ calls' = [calls EXCEPT ![c].chat = "create", ![c].found = "no",
                                    ![c].outcome = outcome,
                                    ![c].creates = @ + 1,
                                    ![c].chatID = IF outcome = "ok" THEN FreshChatID ELSE 0]
          /\ chatMember' = IF outcome = "ok"
                           THEN [chatMember EXCEPT ![FreshChatID] = calls[c].object.user]
                           ELSE chatMember
    /\ UNCHANGED <<chatViewObject, chatViewPath, threadViewObject, threadViewPath,
                   changes, timers, observers, chats, threadOps>>

\* setChatViewObjectAsChat after `await addChatWithUserOnFirestore`
CreateResolved(c) ==
    /\ calls[c].chat = "create"
    /\ calls[c].outcome \in {"ok", "undefined"}
    /\ observers' = IF calls[c].outcome = "ok" THEN Append(observers, c) ELSE observers
    /\ changes' = Emit(changes, "chatViewObjectSetAsChat", c)
    /\ calls' = [calls EXCEPT ![c].chat = "done"]
    /\ UNCHANGED <<chatViewObject, chatViewPath, threadViewObject, threadViewPath,
                   timers, chats, chatMember, threadOps>>

\* addChatWithUserOnFirestore rejects: the dropped promise of
\* setChatViewObjectAsChat rejects, nothing else runs
CreateRejected(c) ==
    /\ calls[c].chat = "create"
    /\ calls[c].outcome = "reject"
    /\ calls' = [calls EXCEPT ![c].chat = "failed"]
    /\ UNCHANGED <<chatViewObject, chatViewPath, threadViewObject, threadViewPath,
                   changes, timers, observers, chats, chatMember, threadOps>>

\* The chatListChange$ callbacks of the calls in obs, run in order against the
\* chat list `list`, starting from st = [view, path, hit]
RECURSIVE Notify(_, _, _)
Notify(obs, list, st) ==
    IF obs = <<>> THEN st
    ELSE LET c == Head(obs)
             chat == FindChatByID(list, calls[c].chatID)
         IN  Notify(Tail(obs), list,
                    IF chat # 0
                    THEN [view |-> ChatObj(chat), path |-> chatMessagesPath(chat),
                          hit |-> Append(st.hit, c)]
                    ELSE st)

NotifyStart == [view |-> chatViewObject, path |-> chatViewPath, hit |-> <<>>]

UnsubTimers(hit) == [i \in DOMAIN hit |-> [kind |-> "unsub", call |-> hit[i]]]

\* chatListChange$ emits, after the cached list took in `added` (a sequence of at
\* most one chat the store holds)
ChatListChange(added) ==
    /\ \A c \in Range(observers) :
          FindChatByID(chats \o added, calls[c].chatID) # 0 => calls[c].hits < MaxHits
    /\ chats' = chats \o added
    /\ LET st == Notify(observers, chats \o added, NotifyStart)
       IN  /\ chatViewObject' = st.view
           /\ chatViewPath' = st.path
           /\ timers' = timers \o UnsubTimers(st.hit)
           /\ calls' = [c \in DOMAIN calls |->
                           IF c \in Range(st.hit)
                           THEN [calls[c] EXCEPT !.hits = @ + 1]
                           ELSE calls[c]]
    /\ UNCHANGED <<threadViewObject, threadViewPath, changes, observers, chatMember,
                   threadOps>>

\* setTimeout(() => chatListChangeSubscription.unsubscribe(), 100) fires
UnsubscribeTimeout ==
    /\ timers # <<>>
    /\ Head(timers).kind = "unsub"
    /\ observers' = SelectSeq(observers, LAMBDA c : c # Head(timers).call)
    /\ timers' = Tail(timers)
    /\ UNCHANGED <<chatViewObject, chatViewPath, threadViewObject, threadViewPath,
                   changes, calls, chats, chatMember, threadOps>>

\* the condition under which setChatViewObject emits navigationComplete
CompleteCondition(view, object) ==
    \/ (object.kind = "Channel" /\ view = ChannelObj(object.user))
    \/ (view.kind = "Chat" /\ object.kind = "User")

\* setChatViewObject after its 100 ms await
NavigationTimeout ==
    /\ timers # <<>>
    /\ Head(timers).kind = "nav"
    /\ LET c == Head(timers).call
       IN  calls' = [calls EXCEPT ![c].pc = "done",
                                  ![c].emitted = CompleteCondition(chatViewObject, calls[c].object),
                                  ![c].viewAtTimeout = chatViewObject]
    /\ timers' = Tail(timers)
    /\ UNCHANGED <<chatViewObject, chatViewPath, threadViewObject, threadViewPath,
                   changes, observers, chats, chatMember, threadOps>>

\* variant: the message is taken as thread whether it is answerable or not
SetThreadViewObjectAlways(message) ==
    /\ threadOps < MaxThreadOps
    /\ threadOps' = threadOps + 1
    /\ threadViewPath' = message.answerPath
    /\ threadViewObject' = message
    /\ changes' = Emit(changes, "threadViewObjectSet", 0)
    /\ UNCHANGED <<chatViewObject, chatViewPath, calls, timers, observers, chats,
                   chatMember>>

\* setThreadViewObject(message)
SetThreadViewObject(message) ==
    /\ threadOps < MaxThreadOps
    /\ threadOps' = threadOps + 1
    /\ IF message.answerable
       THEN /\ threadViewPath' = message.answerPath
            /\ threadViewObject' = message
            /\ changes' = Emit(changes, "threadViewObjectSet", 0)
       ELSE UNCHANGED <<threadViewPath, threadViewObject, changes>>
    /\ UNCHANGED <<chatViewObject, chatViewPath, calls, timers, observers, chats,
                   chatMember>>

\* clearThreadViewObject(), called from outside setChatViewObject
ClearThreadViewObject ==
    /\ threadOps < MaxThreadOps
    /\ threadOps' = threadOps + 1
    /\ threadViewPath' = UndefPath
    /\ threadViewObject' = NoMessage
    /\ changes' = Emit(changes, "threadViewObjectCleared", 0)
    /\ UNCHANGED <<chatViewObject, chatViewPath, calls, timers, observers, chats,
                   chatMember>>

\* ------------------------------------------------------------- MessagesListViewComponent
DocIDs == {"d1", "d2"}
Times == {1, 2}
Payloads == {"a", "b"}
\* the values the messagesPath input takes
InputPaths == {Path("channels", "chA", 0), chatMessagesPath(1), EmptyPath, UndefPath}

\* a document change of a snapshot: added documents arrive with payload "a", a
\* modified document with either payload, a removed one with no data of interest
Changes ==
    [type : {"added"}, id : DocIDs, createdAt : Times, payload : {"a"}]
    \cup [type : {"modified"}, id : DocIDs, createdAt : {1}, payload : Payloads]
    \cup [type : {"removed"}, id : DocIDs, createdAt : {1}, payload : {"a"}]

Batches == UNION {[1..n -> Changes] : n \in 1..MaxBatch}

\* new Message(change.doc.data(), messagesPath, change.doc.id)
NewMessage(change, path) ==
    [id |-> change.id, createdAt |-> change.createdAt, payload |-> change.payload,
     path |-> path]

\* message.update(change.doc.data()): the payload is replaced, id and createdAt stay
MessageUpdate(message, change) == [message EXCEPT !.payload = change.payload]

\* index of the first message with this id, 0 when there is none
FindIndex(list, id) ==
    IF \E i \in DOMAIN list : list[i].id = id
    THEN CHOOSE i \in DOMAIN list :
             list[i].id = id /\ \A j \in DOMAIN list : list[j].id = id => i <= j
    ELSE 0

\* variant: a modified change pushes the updated message instead of updating in place
ApplyChangePushing(st, change, path) ==
    IF change.type = "added"
    THEN [messages |-> Append(st.messages, NewMessage(change, path)), sortNeeded |-> TRUE]
    ELSE IF change.type = "modified"
    THEN LET i == FindIndex(st.messages, change.id)
         IN  IF i = 0 THEN st
             ELSE [st EXCEPT !.messages =
                       Append(st.messages, MessageUpdate(st.messages[i], change))]
    ELSE [st EXCEPT !.messages = SelectSeq(st.messages, LAMBDA m : m.id # change.id)]

\* variant: a modified change for an id that is not held creates the message
ApplyChangeUpserting(st, change, path) ==
    IF change.type = "added"
    THEN [messages |-> Append(st.messages, NewMessage(change, path)), sortNeeded |-> TRUE]
    ELSE IF change.type = "modified"
    THEN LET i == FindIndex(st.messages, change.id)
         IN  IF i = 0
             THEN [st EXCEPT !.messages = Append(st.messages, NewMessage(change, path))]
             ELSE [st EXCEPT !.messages[i] = MessageUpdate(st.messages[i], change)]
    ELSE [st EXCEPT !.messages = SelectSeq(st.messages, LAMBDA m : m.id # change.id)]

\* variant: a removed change leaves the list as it is
ApplyChangeNeverRemoving(st, change, path) ==
    IF change.type = "added"
    THEN [messages |-> Append(st.messages, NewMessage(change, path)), sortNeeded |-> TRUE]
    ELSE IF change.type = "modified"
    THEN LET i == FindIndex(st.messages, change.id)
         IN  IF i = 0 THEN st
             ELSE [st EXCEPT !.messages[i] = MessageUpdate(st.messages[i], change)]
    ELSE st

\* the body of snapshot.docChanges().forEach for one change
ApplyChange(st, change, path) ==
    IF change.type = "added"
    THEN [messages |-> Append(st.messages, NewMessage(change, path)), sortNeeded |-> TRUE]
    ELSE IF change.type = "modified"
    THEN LET i == FindIndex(st.messages, change.id)
         IN  IF i = 0 THEN st
             ELSE [st EXCEPT !.messages[i] = MessageUpdate(st.messages[i], change)]
    ELSE [st EXCEPT !.messages = SelectSeq(st.messages, LAMBDA m : m.id # change.id)]

RECURSIVE ApplyBatch(_, _, _)
ApplyBatch(st, batch, path) ==
    IF batch = <<>> THEN st
    ELSE ApplyBatch(ApplyChange(st, Head(batch), path), Tail(batch), path)

\* variant: m is put in front of the messages with the same createdAt
RECURSIVE InsertBeforeEqual(_, _)
InsertBeforeEqual(sorted, m) ==
    IF sorted = <<>> THEN <<m>>
    ELSE IF sorted[Len(sorted)].createdAt - m.createdAt < 0 THEN Append(sorted, m)
    ELSE Append(InsertBeforeEqual(SubSeq(sorted, 1, Len(sorted) - 1), m),
                sorted[Len(sorted)])

\* m put into a list sorted by createdAt, behind the messages that are not later
RECURSIVE Insert(_, _)
Insert(sorted, m) ==
    IF sorted = <<>> THEN <<m>>
    ELSE IF sorted[Len(sorted)].createdAt - m.createdAt <= 0 THEN Append(sorted, m)
    ELSE Append(Insert(SubSeq(sorted, 1, Len(sorted) - 1), m), sorted[Len(sorted)])

\* Array.prototype.sort((a, b) => a.createdAt.getTime() - b.createdAt.getTime()),
\* which is stable
RECURSIVE SortByCreatedAt(_)
SortByCreatedAt(list) ==
    IF list = <<>> THEN <<>>
    ELSE Insert(SortByCreatedAt(SubSeq(list, 1, Len(list) - 1)), list[Len(list)])

\* variant: the sort after the batch is left out
SortNever(st) == st.messages

\* if (sortNeeded) this.messages.sort(...)
SortIfNeeded(st) ==
    IF st.sortNeeded THEN SortByCreatedAt(st.messages) ELSE st.messages

\* the listeners left after the unsubscribe function of listener `handle` ran
Unsubscribed(ls, handle) == {l \in ls : l.handle # handle}

\* if (messagesPath): '' and undefined attach nothing
Truthy(value) == value # UndefPath /\ value # EmptyPath

\* variant: the previous listener is not cancelled before the next is attached
SubscribeMessagesNoCancel(value) ==
    IF Truthy(value)
    THEN [listeners |-> listeners \cup {[handle |-> attaches + 1, path |-> value]},
          unsubMessages |-> attaches + 1]
    ELSE [listeners |-> listeners, unsubMessages |-> unsubMessages]

\* subscribeMessages(value): the listeners and unsubMessages it leaves
SubscribeMessages(value) ==
    LET rest == IF unsubMessages # 0 THEN Unsubscribed(listeners, unsubMessages)
                ELSE listeners
    IN  IF Truthy(value)
        THEN [listeners |-> rest \cup {[handle |-> attaches + 1, path |-> value]},
              unsubMessages |-> attaches + 1]
        ELSE [listeners |-> rest, unsubMessages |-> unsubMessages]

\* variant: the setter keeps the held list
MessagesKeptOnPathSet == messages

\* this.messages = [] in the messagesPath setter
MessagesOnPathSet == <<>>

\* set messagesPath(value)
SetMessagesPath(value) ==
    /\ ~destroyed
    /\ attaches < MaxAttach
    /\ messages' = MessagesOnPathSet
    /\ listeners' = SubscribeMessages(value).listeners
    /\ unsubMessages' = SubscribeMessages(value).unsubMessages
    /\ attachedPath' = value
    /\ attaches' = attaches + 1
    /\ resorted' = FALSE
    /\ UNCHANGED destroyed

\* a modified or removed change of the batch names an id the list does not hold
\* when the change is reached
RECURSIVE Ignores(_, _, _)
Ignores(list, batch, path) ==
    IF batch = <<>> THEN FALSE
    ELSE \/ Head(batch).type # "added" /\ FindIndex(list, Head(batch).id) = 0
         \/ Ignores(ApplyChange([messages |-> list, sortNeeded |-> FALSE],
                                Head(batch), path).messages,
                    Tail(batch), path)

\* the onSnapshot callback of listener l, for one batch of document changes
Snapshot(l, batch) ==
    /\ l \in listeners
    /\ LET st == ApplyBatch([messages |-> messages, sortNeeded |-> FALSE], batch, l.path)
       IN  /\ Len(st.messages) <= MaxMessages
           /\ messages' = SortIfNeeded(st)
           /\ resorted' = (SortIfNeeded(st) # st.messages)
    /\ UNCHANGED <<unsubMessages, listeners, attachedPath, attaches, destroyed>>

\* ngOnDestroy()
NgOnDestroy ==
    /\ ~destroyed
    /\ destroyed' = TRUE
    /\ listeners' = IF unsubMessages # 0 THEN Unsubscribed(listeners, unsubMessages)
                    ELSE listeners
    /\ UNCHANGED <<messages, unsubMessages, attachedPath, attaches, resorted>>

InitFeed ==
    /\ messages = <<>>
    /\ unsubMessages = 0
    /\ listeners = {}
    /\ attachedPath = UndefPath
    /\ attaches = 0
    /\ destroyed = FALSE
    /\ resorted = FALSE

\* the same batch applied to the delivery-order copy of the list, never sorted
Delivered(batch, path) ==
    ApplyBatch([messages |-> arrival, sortNeeded |-> FALSE], batch, path).messages

InitTrace ==
    /\ arrival = <<>>
    /\ ignored = FALSE

\* ------------------------------------------------------------- search context
\* largest Chat.memberIDs
MaxMembers == 2

\* userService.currentUser is undefined
NoUser == "none"
\* the value undefined of a string | undefined name or id
UndefName == "undefined"
\* no getSearchContext call has returned yet
NoContext == "?"

\* User.name
UserName(u) == IF u = "u1" THEN "alice" ELSE "bob"
\* Channel.name
ChannelName(ch) == IF ch = "chA" THEN "general" ELSE "random"

\* channelService.defaultChannel
defaultChannel == ChannelObj("chA")

\* get chatViewObject(): the default channel while nothing is selected
ChatViewObjectGetter ==
    IF chatViewObject = Undef THEN defaultChannel ELSE chatViewObject

\* ifMainMessageObjectIsChannel(): this._chatViewObject instanceof Channel
ifMainMessageObjectIsChannel == chatViewObject.kind = "Channel"

\* ifMainMessageObjectIsChat(): this._chatViewObject instanceof Chat
ifMainMessageObjectIsChat == chatViewObject.kind = "Chat"

\* this.userService.currentUser?.id
CurrentUserID == IF currentUser = NoUser THEN UndefName ELSE currentUser

\* this.userService.getUserByID(id)?.name
getUserByIDName(id) == IF id \in directory THEN UserName(id) ELSE UndefName

\* the truth value of a string | undefined
TruthyName(value) == value # UndefName /\ value # ""

\* getChatPartnerName()
getChatPartnerName ==
    IF ChatViewObjectGetter.kind = "Chat"
    THEN LET \* memberIDs.find(..): the first id that passes, undefined when none does
             passing == SelectSeq(memberIDs, LAMBDA id : id # CurrentUserID)
             chatPartnerID == IF passing = <<>> THEN UndefName ELSE passing[1]
         IN  IF TruthyName(chatPartnerID) THEN getUserByIDName(chatPartnerID)
             ELSE UndefName
    ELSE UndefName

\* variant: one member equal to the current user makes a self-chat
isSelfChatSome ==
    IF ChatViewObjectGetter.kind = "Chat" /\ currentUser # NoUser
    THEN \E i \in DOMAIN memberIDs : memberIDs[i] = CurrentUserID
    ELSE FALSE

\* isSelfChat()
isSelfChat ==
    IF ChatViewObjectGetter.kind = "Chat" /\ currentUser # NoUser
    THEN \A i \in DOMAIN memberIDs : memberIDs[i] = CurrentUserID
    ELSE FALSE

\* getSearchContext()
getSearchContext ==
    IF ChatViewObjectGetter.kind = "Chat"
    THEN LET chatPartner == getChatPartnerName
         IN  IF TruthyName(chatPartner) THEN "in:@" \o chatPartner
             ELSE IF isSelfChat THEN "in:@" \o UserName(currentUser)
             ELSE ""
    ELSE IF ChatViewObjectGetter.kind = "Channel"
    THEN "in:#" \o ChannelName(ChatViewObjectGetter.channel)
    ELSE ""

\* a caller reads the search context
GetSearchContext ==
    /\ searchContext' = getSearchContext
    /\ UNCHANGED <<memberIDs, currentUser, directory>>

InitSearch ==
    /\ memberIDs = <<>>
    /\ currentUser = NoUser
    /\ directory = {}
    /\ searchContext = NoContext

\* ------------------------------------------------------------- scroll to a message
\* const maxAttempts = 5
maxAttempts == 5
\* number of scrollToMessageInView calls in one behaviour
MaxScrolls == 1

\* scrollToMessageInView(message): attempts = 0, setTimeout(scrollToElement, 100)
ScrollToMessageInView(id) ==
    /\ Len(scrolls) < MaxScrolls
    /\ scrolls' = Append(scrolls, [target |-> id, attempts |-> 0, lookups |-> 0,
                                   pc |-> "timer"])
    /\ UNCHANGED <<rendered, highlighted>>

\* variant: the retry test lets one more attempt through
ScrollToElementOneMore(r) ==
    /\ r \in DOMAIN scrolls
    /\ scrolls[r].pc = "timer"
    /\ LET looked == [scrolls[r] EXCEPT !.lookups = @ + 1]
       IN  IF scrolls[r].target \in rendered
           THEN /\ scrolls' = [scrolls EXCEPT ![r] = [looked EXCEPT !.pc = "found"]]
                /\ highlighted' = highlighted \cup {scrolls[r].target}
           ELSE IF scrolls[r].attempts <= maxAttempts
           THEN /\ scrolls' = [scrolls EXCEPT ![r] = [looked EXCEPT !.attempts = @ + 1]]
                /\ UNCHANGED highlighted
           ELSE /\ scrolls' = [scrolls EXCEPT ![r] = [looked EXCEPT !.pc = "gaveUp"]]
                /\ UNCHANGED highlighted
    /\ UNCHANGED rendered

\* the timer callback scrollToElement of invocation r
ScrollToElement(r) ==
    /\ r \in DOMAIN scrolls
    /\ scrolls[r].pc = "timer"
    /\ LET looked == [scrolls[r] EXCEPT !.lookups = @ + 1]
       IN  IF scrolls[r].target \in rendered
           THEN /\ scrolls' = [scrolls EXCEPT ![r] = [looked EXCEPT !.pc = "found"]]
                /\ highlighted' = highlighted \cup {scrolls[r].target}
           ELSE IF scrolls[r].attempts < maxAttempts
           THEN /\ scrolls' = [scrolls EXCEPT ![r] = [looked EXCEPT !.attempts = @ + 1]]
                /\ UNCHANGED highlighted
           ELSE /\ scrolls' = [scrolls EXCEPT ![r] = [looked EXCEPT !.pc = "gaveUp"]]
                /\ UNCHANGED highlighted
    /\ UNCHANGED rendered

\* the timer callback that removes color-change, 1750 ms after the element was found
RemoveHighlight(r) ==
    /\ r \in DOMAIN scrolls
    /\ scrolls[r].pc = "found"
    /\ scrolls' = [scrolls EXCEPT ![r].pc = "done"]
    /\ highlighted' = highlighted \ {scrolls[r].target}
    /\ UNCHANGED rendered

\* the message element with this id appears in or disappears from the document
DomChange(id) ==
    /\ rendered' = IF id \in rendered THEN rendered \ {id} ELSE rendered \cup {id}
    /\ UNCHANGED <<scrolls, highlighted>>

InitScroll ==
    /\ scrolls = <<>>
    /\ rendered = {}
    /\ highlighted = {}

\* ------------------------------------------------------------- the remote collection
\* a collection without documents
EmptyRemote == [id \in {} |-> [createdAt |-> 0, payload |-> ""]]

\* the collection after the document change
RemoteApply(rem, change) ==
    IF change.type = "removed"
    THEN [id \in (DOMAIN rem) \ {change.id} |-> rem[id]]
    ELSE [id \in (DOMAIN rem) \cup {change.id} |->
             IF id # change.id THEN rem[id]
             ELSE IF change.type = "added"
             THEN [createdAt |-> change.createdAt, payload |-> change.payload]
             ELSE [rem[id] EXCEPT !.payload = change.payload]]

RECURSIVE RemoteAfter(_, _)
RemoteAfter(rem, batch) ==
    IF batch = <<>> THEN rem
    ELSE RemoteAfter(RemoteApply(rem, Head(batch)), Tail(batch))

\* docChanges() of a listener on the collection: a document is reported added
\* while absent, modified or removed while present
RECURSIVE WellFormed(_, _)
WellFormed(rem, batch) ==
    IF batch = <<>> THEN TRUE
    ELSE /\ (Head(batch).type = "added") = (Head(batch).id \notin DOMAIN rem)
         /\ WellFormed(RemoteApply(rem, Head(batch)), Tail(batch))

InitMirror == remote = EmptyRemote

Init == InitNav /\ InitFeed /\ InitTrace /\ InitSearch /\ InitScroll /\ InitMirror

Next ==
    \/ (\E object \in Selections : SetChatViewObject(object)) /\ UNCHANGED offNav
    \/ (\E c \in DOMAIN calls : LookupFound(c)) /\ UNCHANGED offNav
    \/ (\E c \in DOMAIN calls : LookupMissed(c)) /\ UNCHANGED offNav
    \/ (\E c \in DOMAIN calls : CreateResolved(c)) /\ UNCHANGED offNav
    \/ (\E c \in DOMAIN calls : CreateRejected(c)) /\ UNCHANGED offNav
    \/ (\E id \in PendingChats : ChatListChange(<<id>>)) /\ UNCHANGED offNav
    \/ (observers # <<>> /\ ChatListChange(<<>>)) /\ UNCHANGED offNav
    \/ UnsubscribeTimeout /\ UNCHANGED offNav
    \/ NavigationTimeout /\ UNCHANGED offNav
    \/ (\E message \in ThreadMessages : SetThreadViewObject(message)) /\ UNCHANGED offNav
    \/ ClearThreadViewObject /\ UNCHANGED offNav

\* the navigation service
Spec == Init /\ [][Next]_vars

FeedNext ==
    \/ (\E value \in InputPaths : SetMessagesPath(value)) /\ UNCHANGED offFeed
    \/ (\E l \in listeners : \E batch \in Batches : Snapshot(l, batch)) /\ UNCHANGED offFeed
    \/ NgOnDestroy /\ UNCHANGED offFeed

FeedInit == Init /\ chats = <<>>

\* the message list component
FeedSpec == FeedInit /\ [][FeedNext]_vars

\* the message list component, with the delivery order of its messages recorded
FeedTraceNext ==
    \/ /\ \E value \in InputPaths : SetMessagesPath(value)
       /\ arrival' = <<>>
       /\ ignored' = FALSE
       /\ UNCHANGED <<navVars, searchVars, scrollVars, mirrorVars>>
    \/ /\ \E l \in listeners : \E batch \in Batches :
              /\ Snapshot(l, batch)
              /\ arrival' = Delivered(batch, l.path)
              /\ ignored' = Ignores(messages, batch, l.path)
       /\ UNCHANGED <<navVars, searchVars, scrollVars, mirrorVars>>
    \/ NgOnDestroy /\ UNCHANGED offFeed

FeedTraceSpec == FeedInit /\ [][FeedTraceNext]_vars

\* the message list component fed by a listener that reports its collection
MirrorNext ==
    \/ /\ \E value \in InputPaths : SetMessagesPath(value)
       /\ remote' = EmptyRemote
       /\ UNCHANGED <<navVars, traceVars, searchVars, scrollVars>>
    \/ /\ \E l \in listeners : \E batch \in Batches :
              /\ WellFormed(remote, batch)
              /\ Snapshot(l, batch)
              /\ remote' = RemoteAfter(remote, batch)
       /\ UNCHANGED <<navVars, traceVars, searchVars, scrollVars>>
    \/ NgOnDestroy /\ UNCHANGED offFeed

MirrorSpec == FeedInit /\ [][MirrorNext]_vars

\* ------------------------------------------------------------- search context: specification
SearchMembers == UNION {[1..n -> Users] : n \in 0..MaxMembers}

\* any chat membership, any logged-in user or none, any part of the users loaded
SearchInit ==
    /\ InitNav /\ InitFeed /\ InitTrace /\ InitScroll /\ InitMirror
    /\ memberIDs \in SearchMembers
    /\ currentUser \in Users \cup {NoUser}
    /\ directory \in SUBSET Users
    /\ searchContext = NoContext

\* the view is selected through the service, the context is read at any time
SearchNext ==
    \/ /\ \E object \in Selections : SetChatViewObject(object)
       /\ UNCHANGED offNav
    \/ /\ \E c \in DOMAIN calls : LookupFound(c)
       /\ UNCHANGED offNav
    \/ /\ GetSearchContext
       /\ UNCHANGED <<navVars, feedVars, traceVars, scrollVars, mirrorVars>>

SearchSpec == SearchInit /\ [][SearchNext]_vars

\* ------------------------------------------------------------- scroll: specification
ScrollNext ==
    \/ (\E id \in DocIDs : ScrollToMessageInView(id)) /\ UNCHANGED offScroll
    \/ (\E r \in DOMAIN scrolls : ScrollToElement(r)) /\ UNCHANGED offScroll
    \/ (\E r \in DOMAIN scrolls : RemoveHighlight(r)) /\ UNCHANGED offScroll
    \/ (\E id \in DocIDs : DomChange(id)) /\ UNCHANGED offScroll

\* a timer that was set fires
ScrollFairness ==
    \A r \in 1..MaxScrolls :
        /\ WF_vars(ScrollToElement(r) /\ UNCHANGED offScroll)
        /\ WF_vars(RemoveHighlight(r) /\ UNCHANGED offScroll)

ScrollSpec == Init /\ [][ScrollNext]_vars /\ ScrollFairness

\* ------------------------------------------------------------- claims: navigation
\* view is the object call c asked for: the channel itself, or a chat with the user
Requested(c, view) ==
    IF calls[c].object.kind = "Channel"
    THEN view = ChannelObj(calls[c].object.user)
    ELSE view.kind = "Chat" /\ chatMember[view.chat] = calls[c].object.user

\* the path setChatViewObject stores with a view object
PathOf(view) ==
    IF view.kind = "Channel" THEN ChannelViewPath(view.channel)
    ELSE chatMessagesPath(view.chat)

\* call c produced an object: a channel, a chat found, or a chat created
Resolved(c) ==
    \/ calls[c].object.kind = "Channel"
    \/ calls[c].found = "yes"
    \/ calls[c].outcome = "ok"

\* nothing is left to run: no timer, no lookup or creation under way, no
\* chat-list subscription, no created chat still to reach the list
Quiescent ==
    /\ timers = <<>>
    /\ observers = <<>>
    /\ PendingChats = {}
    /\ \A c \in DOMAIN calls : calls[c].chat \in {"none", "done", "failed"}

\* the chat-list notifications the model can deliver in the current state
NotifySteps == \E added \in {<<>>} \cup {<<id>> : id \in PendingChats} : ChatListChange(added)

\* C1: when a second setChatViewObject call is issued while an earlier call is
\* still resolving, then once all pending work has run the view and its path
\* are those of the last call.
C1_LatestSelectViewWins ==
    (/\ Quiescent
     /\ Len(calls) >= 2
     /\ calls[Len(calls)].overlaps
     /\ Resolved(Len(calls)))
    => /\ Requested(Len(calls), chatViewObject)
       /\ chatViewPath = PathOf(chatViewObject)

\* C2: whenever the view object changes, the thread object and the thread path
\* are undefined right after the change.
C2_ThreadNeverOutlivesView ==
    [][chatViewObject' # chatViewObject
       => threadViewObject' = NoMessage /\ threadViewPath' = UndefPath]_vars

\* C4: a call waiting on chat-list notifications loses its subscription when a
\* later call is issued, and a notification changes the view and the path only
\* through the subscription of the latest call.
C4_SupersededWaitIsCancelled ==
    [][/\ Len(calls') > Len(calls) => observers' = <<>>
       /\ NotifySteps =>
             LET latest == SelectSeq(observers, LAMBDA c : c = Len(calls))
                 st == Notify(latest, chats', NotifyStart)
             IN  chatViewObject' = st.view /\ chatViewPath' = st.path]_vars

\* C5: once the callback of a call has found its chat and set the view, later
\* chat-list notifications have no effect through that subscription: the view
\* and the path are what the other subscriptions alone make them.
C5_DetectionSubscriptionIsOneShot ==
    [][NotifySteps =>
          LET fresh == SelectSeq(observers, LAMBDA c : calls[c].hits = 0)
              st == Notify(fresh, chats', NotifyStart)
          IN  chatViewObject' = st.view /\ chatViewPath' = st.path]_vars

\* C6: navigationComplete is emitted for a call only when the view at that
\* moment is the object the call asked for.
C6_CompleteOnlyForRequestedView ==
    \A c \in DOMAIN calls : calls[c].emitted => Requested(c, calls[c].viewAtTimeout)

\* C9: when the lookup of a call returns, a chat found means no creation
\* request and the view and path set to that chat at once, without a chat-list
\* subscription; no chat found means exactly one creation request; no other
\* step issues a creation request.
C9_CreateOnceIffLookupMisses ==
    [][\A c \in DOMAIN calls :
          IF calls[c].chat = "lookup" /\ calls'[c].chat # "lookup"
          THEN LET chat == getChatWithUserByID(calls[c].object.user)
               IN  IF chat # 0
                   THEN /\ calls'[c].creates = 0
                        /\ chatViewObject' = ChatObj(chat)
                        /\ chatViewPath' = chatMessagesPath(chat)
                        /\ chatMember[chat] = calls[c].object.user
                        /\ calls'[c].chat = "done"
                        /\ c \notin Range(observers')
                   ELSE calls'[c].creates = 1
          ELSE calls'[c].creates = calls[c].creates]_vars

\* C9 witness: one call found its chat and shows it, another call created one
C9_Witness ==
    \E c, d \in DOMAIN calls :
        /\ calls[c].found = "yes" /\ calls[c].creates = 0
        /\ chatViewObject = ChatObj(calls[c].chatID)
        /\ calls[d].found = "no" /\ calls[d].creates = 1

\* the creation request of call c has failed
CreationFailed(c) ==
    \/ calls[c].chat = "failed"
    \/ calls[c].chat = "done" /\ calls[c].outcome = "undefined"

\* C10: a call whose chat creation failed does not complete as a success.
C10_CreationFailureReachesCaller ==
    \A c \in DOMAIN calls : CreationFailed(c) => calls[c].pc # "done"

\* ------------------------------------------------------------- claims: message list
\* C3: after every snapshot callback the held list is in non-decreasing order
\* of createdAt.
C3_SortedAfterEveryBatch ==
    \A i, j \in DOMAIN messages : i < j => messages[i].createdAt <= messages[j].createdAt

\* C3 witness: the sort of the last callback moved a message and the list
\* holds messages of different times
C3_Witness ==
    /\ resorted
    /\ Len(messages) >= 2
    /\ messages[1].createdAt < messages[Len(messages)].createdAt

\* C7: at most one snapshot listener is attached, it is the one of the latest
\* messagesPath assignment, and none is attached once the component is destroyed.
C7_AtMostOneLiveListener ==
    /\ Cardinality(listeners) <= 1
    /\ \A l \in listeners : l.handle = attaches /\ l.path = attachedPath
    /\ destroyed => listeners = {}

\* C7 witness: the path was switched and the listener of the new path is attached
C7_Witness ==
    /\ attaches >= 2
    /\ Cardinality(listeners) = 1
    /\ unsubMessages = attaches

\* C8: a messagesPath assignment leaves the held list empty, and every held
\* message was delivered by the listener of the path now attached.
C8_ListHoldsOnlyAttachedPath ==
    [][/\ attaches' # attaches => messages' = <<>>
       /\ \A i \in DOMAIN messages' : messages'[i].path = attachedPath']_vars

\* C8 witness: after a switch of path the list holds messages of the new path
C8_Witness ==
    /\ attaches >= 2
    /\ messages # <<>>
    /\ \A i \in DOMAIN messages : messages[i].path = attachedPath

\* ------------------------------------------------------------- claims: navigation (2)
\* C11: when the only setChatViewObject call so far failed to create its chat
\* and no thread call was made since, the view, the path, the thread and the
\* thread path are what they were before the call.
C11_FailedCallLeavesStateUnchanged ==
    (Len(calls) = 1 /\ CreationFailed(1) /\ threadOps = calls[1].before.threadOps)
    => NavState = calls[1].before

\* the places in the change stream of the events with this tag pushed by call c
EventIndexes(tag, c) ==
    {i \in DOMAIN changes : changes[i].tag = tag /\ changes[i].call = c}

\* C12: of two channel selections the later one's chatViewObjectSetAsChannel
\* event comes after every such event of the earlier one, and when only
\* channels were selected the view and the path are those of the last one.
C12_LaterChannelWins ==
    /\ \A c, d \in DOMAIN calls :
          (c < d /\ calls[c].object.kind = "Channel" /\ calls[d].object.kind = "Channel")
          => /\ EventIndexes("chatViewObjectSetAsChannel", d) # {}
             /\ \A i \in EventIndexes("chatViewObjectSetAsChannel", c) :
                   \A j \in EventIndexes("chatViewObjectSetAsChannel", d) : i < j
    /\ (calls # <<>> /\ \A e \in DOMAIN calls : calls[e].object.kind = "Channel")
       => /\ chatViewObject = ChannelObj(calls[Len(calls)].object.user)
          /\ chatViewPath = ChannelViewPath(calls[Len(calls)].object.user)

\* C12 witness: chB was selected while the call for chA still waits for its timer
C12_Witness ==
    /\ Len(calls) = 2
    /\ calls[1].object = ChannelArg("chA") /\ calls[1].pc = "timer"
    /\ calls[2].object = ChannelArg("chB")
    /\ chatViewObject = ChannelObj("chB")

\* C13: in the change stream the chatViewObjectSetAsChannel or
\* chatViewObjectSetAsChat event of a call comes before the
\* threadViewObjectCleared event of the same call.
C13_ViewSetBeforeThreadCleared ==
    \A c \in DOMAIN calls :
        \A i \in EventIndexes("chatViewObjectSetAsChannel", c)
                    \cup EventIndexes("chatViewObjectSetAsChat", c) :
            \A j \in EventIndexes("threadViewObjectCleared", c) : i < j

\* C14: setThreadViewObject(message) with an answerable message makes it the
\* thread, its answerPath the thread path and pushes one threadViewObjectSet;
\* with a message that is not answerable the thread, the thread path and the
\* change stream stay as they are.
C14_ThreadSetIffAnswerable ==
    [][\A message \in ThreadMessages :
          SetThreadViewObject(message)
          => IF message.answerable
             THEN /\ threadViewObject' = message
                  /\ threadViewPath' = message.answerPath
                  /\ Len(changes') = Len(changes) + 1
                  /\ SubSeq(changes', 1, Len(changes)) = changes
                  /\ changes'[Len(changes')].tag = "threadViewObjectSet"
             ELSE UNCHANGED <<threadViewObject, threadViewPath, changes>>]_vars

\* C14 witness: an answerable message was made the thread
C14_Witness ==
    /\ threadViewObject \in ThreadMessages
    /\ threadViewObject.answerable
    /\ threadViewPath = threadViewObject.answerPath
    /\ changes[Len(changes)].tag = "threadViewObjectSet"

\* ------------------------------------------------------------- claims: change feed, deltas

\* C15: a modified change for an id the list holds keeps the length of the list and
\* the id at every position; the first message with that id carries the new payload
\* and its id and createdAt as before, and every other entry is what it was.
C15_ModifiedUpdatesInPlace ==
    [][\A l \in listeners : \A change \in Changes :
          (/\ change.type = "modified"
           /\ FindIndex(messages, change.id) # 0
           /\ Snapshot(l, <<change>>))
          => LET i == FindIndex(messages, change.id)
             IN  /\ Len(messages') = Len(messages)
                 /\ \A k \in DOMAIN messages : messages'[k].id = messages[k].id
                 /\ messages'[i] = [messages[i] EXCEPT !.payload = change.payload]
                 /\ \A k \in DOMAIN messages : k # i => messages'[k] = messages[k]]_vars

C15_Witness ==
    /\ Len(messages) >= 2
    /\ \E i, k \in DOMAIN messages :
          /\ messages[i].payload = "b"
          /\ messages[k].payload = "a"
          /\ messages[i].id # messages[k].id

\* C16: a modified or removed change for an id the list does not hold leaves the
\* list as it was; after a removed change for an id, alone or followed in the same
\* batch by a modified change for it, the list holds no message with that id.
C16_UnknownIdIsNoOp ==
    [][\A l \in listeners : \A change \in Changes :
          /\ (/\ change.type # "added"
              /\ FindIndex(messages, change.id) = 0
              /\ Snapshot(l, <<change>>))
             => messages' = messages
          /\ (change.type = "removed" /\ Snapshot(l, <<change>>))
             => FindIndex(messages', change.id) = 0
          /\ \A later \in Changes :
                (/\ change.type = "removed"
                 /\ later.type = "modified"
                 /\ later.id = change.id
                 /\ Snapshot(l, <<change, later>>))
                => /\ FindIndex(messages', change.id) = 0
                   /\ messages' = SelectSeq(messages, LAMBDA m : m.id # change.id)]_vars

C16_Witness ==
    /\ ignored
    /\ messages # <<>>

\* ids of the messages of a list with this createdAt, in list order
IdsAt(list, t) ==
    LET at == SelectSeq(list, LAMBDA m : m.createdAt = t)
    IN  [k \in DOMAIN at |-> at[k].id]

\* C17: the messages of the list with the same createdAt stand in the order in
\* which the feed delivered them, whatever batches delivered them.
C17_EqualCreatedAtKeepArrivalOrder ==
    \A t \in Times : IdsAt(messages, t) = IdsAt(arrival, t)

C17_Witness ==
    /\ resorted
    /\ \E i, k \in DOMAIN messages :
          /\ i < k
          /\ messages[i].createdAt = messages[k].createdAt
          /\ messages[i].id # messages[k].id
    /\ arrival # messages

\* ------------------------------------------------------------- claims: search context

\* positions of the members that are not the current user
OtherMembers == {i \in DOMAIN memberIDs : memberIDs[i] # currentUser}

\* the first member that is not the current user
FirstOther == memberIDs[CHOOSE i \in OtherMembers : \A j \in OtherMembers : i <= j]

\* C18: every getSearchContext call returns in:# and the channel's name for a
\* channel view (the default channel while nothing is selected); for a chat view
\* in:@ and the directory name of the first member that is not the current user
\* when there is such a member and the directory knows it, in:@ and the current
\* user's name when there is a current user and every member is that user, and
\* the empty string in every other case.
C18_SearchContextFollowsView ==
    [][GetSearchContext
       => searchContext' =
             IF chatViewObject = Undef
             THEN "in:#" \o ChannelName(defaultChannel.channel)
             ELSE IF chatViewObject.kind = "Channel"
             THEN "in:#" \o ChannelName(chatViewObject.channel)
             ELSE IF OtherMembers # {}
             THEN IF FirstOther \in directory
                  THEN "in:@" \o UserName(FirstOther)
                  ELSE ""
             ELSE IF currentUser # NoUser
             THEN "in:@" \o UserName(currentUser)
             ELSE ""]_vars

C18_Witness ==
    /\ chatViewObject.kind = "Chat"
    /\ memberIDs = <<"u1", "u1">>
    /\ currentUser = "u1"
    /\ searchContext = "in:@alice"

\* ------------------------------------------------------------- claims: view path

\* C19: the path of the view is undefined or a non-empty string, never the empty
\* string, whichever channel or chat has been selected.
C19_ViewPathNeverEmpty == chatViewPath # EmptyPath

\* ------------------------------------------------------------- claims: scroll to a message

\* invocation r has no timer left
Settled(r) == scrolls[r].pc \in {"gaveUp", "done"}

\* C20: every scrollToMessageInView invocation looks the element up once after
\* the initial delay and at most maxAttempts more times; once it has found the
\* element or used up its retries it never looks it up again; it ends with no
\* timer left, and a highlight it applied is removed.
C20_ScrollTerminates ==
    /\ [](\A r \in DOMAIN scrolls :
             /\ scrolls[r].attempts <= maxAttempts
             /\ scrolls[r].lookups <= 1 + maxAttempts
             /\ scrolls[r].pc = "gaveUp" => scrolls[r].lookups = 1 + maxAttempts)
    /\ [][\A r \in DOMAIN scrolls :
             scrolls[r].pc # "timer"
             => /\ scrolls'[r].lookups = scrolls[r].lookups
                /\ scrolls'[r].attempts = scrolls[r].attempts
                /\ scrolls'[r].pc # "timer"]_vars
    /\ \A r \in 1..MaxScrolls :
          /\ (r \in DOMAIN scrolls) ~> (r \in DOMAIN scrolls /\ Settled(r))
          /\ (r \in DOMAIN scrolls /\ scrolls[r].pc = "found")
                ~> (/\ r \in DOMAIN scrolls
                    /\ scrolls[r].pc = "done"
                    /\ scrolls[r].target \notin highlighted)

C20_Witness ==
    \E r \in DOMAIN scrolls :
        /\ scrolls[r].pc = "done"
        /\ scrolls[r].attempts = maxAttempts
        /\ scrolls[r].lookups = 1 + maxAttempts
        /\ highlighted = {}

\* ------------------------------------------------------------- claims: view events

\* positions of the events a step pushed
Pushed == (DOMAIN changes') \ (DOMAIN changes)

\* C21: a step that changes the view object pushes the event named after the
\* kind of the new object; a step that pushes chatViewObjectSetAsChat leaves the
\* chat with the user of the pushing call as view, and a step that pushes
\* chatViewObjectSetAsChannel leaves the channel of the pushing call as view.
C21_ViewChangesWithMatchingEvent ==
    [][/\ chatViewObject' # chatViewObject
          => \E i \in Pushed :
                changes'[i].tag = IF chatViewObject'.kind = "Chat"
                                  THEN "chatViewObjectSetAsChat"
                                  ELSE "chatViewObjectSetAsChannel"
       /\ \A i \in Pushed :
             /\ changes'[i].tag = "chatViewObjectSetAsChat"
                => /\ chatViewObject'.kind = "Chat"
                   /\ chatMember'[chatViewObject'.chat]
                         = calls'[changes'[i].call].object.user
             /\ changes'[i].tag = "chatViewObjectSetAsChannel"
                => /\ calls'[changes'[i].call].object.kind = "Channel"
                   /\ chatViewObject' = ChannelObj(calls'[changes'[i].call].object.user)]_vars

\* ------------------------------------------------------------- claims: mirror of the collection

\* C22: fed by a listener that reports a document added while absent and
\* modified or removed while present, the list holds exactly the ids of the
\* documents of the collection, none twice, each with the createdAt it was added
\* with and the payload delivered last for it.
C22_ListMirrorsCollection ==
    /\ {messages[i].id : i \in DOMAIN messages} = DOMAIN remote
    /\ \A i, k \in DOMAIN messages : messages[i].id = messages[k].id => i = k
    /\ \A i \in DOMAIN messages :
          /\ messages[i].payload = remote[messages[i].id].payload
          /\ messages[i].createdAt = remote[messages[i].id].createdAt

C22_Witness ==
    /\ Len(messages) = 2
    /\ DOMAIN remote = DocIDs
    /\ messages[1].payload = "b"
    /\ messages[2].payload = "a"

\* ------------------------------------------------------------- claims: kind of the view

\* C23: exactly one of ifMainMessageObjectIsChannel and ifMainMessageObjectIsChat
\* is true, and it is the one for the kind of the object the chatViewObject
\* accessor returns, also while nothing has been selected.
C23_KindTestsAgreeWithAccessor ==
    /\ ifMainMessageObjectIsChannel # ifMainMessageObjectIsChat
    /\ ifMainMessageObjectIsChannel = (ChatViewObjectGetter.kind = "Channel")
    /\ ifMainMessageObjectIsChat = (ChatViewObjectGetter.kind = "Chat")

====
